---- MODULE Spec2Model ----
\* Model of src/src/lib.rs (rustgeojson): Record, County, Counties and the
\* parallel batch lookups.  Floating-point coordinates are modelled as exact
\* integers (fixed-point); a geo::Point is the pair <<x, y>> = <<axis0, axis1>>.
EXTENDS Integers, Sequences, FiniteSets, TLC

\* ---------------------------------------------------------------- bounds
MaxFeatures == 2   \* longest feature collection handed to Counties::new
MaxBatch == 2      \* longest input vector handed to lookup_all(_records)

\* ---------------------------------------------------------------- values
\* Option<T>
None == [tag |-> "None"]
Some(v) == [tag |-> "Some", val |-> v]
\* a slot of the result vector that collect_into has not written yet
Uninit == [tag |-> "Uninit"]
\* outcome of a constructor that panicked (index out of bounds)
Panic == [tag |-> "Panic"]

Point_new(x, y) == <<x, y>>

\* source rings, in (longitude, latitude) order as GeoJSON stores them
RingSquare == << <<0, 0>>, <<10, 0>>, <<10, 10>>, <<0, 10>> >>
RingWide == << <<0, 0>>, <<20, 0>>, <<20, 6>>, <<0, 6>>, <<0, 0>> >>
RingOuter == << <<20, 20>>, <<30, 20>>, <<30, 30>>, <<20, 30>>, <<20, 20>> >>
RingHole == << <<23, 23>>, <<27, 23>>, <<27, 27>>, <<23, 27>>, <<23, 23>> >>
RingTwoPoints == << <<0, 0>>, <<10, 10>> >>
RingTriangle == << <<0, 12>>, <<8, 12>>, <<0, 18>>, <<0, 12>> >>

Feature(navn, coordinates) == [navn |-> navn, coordinates |-> coordinates]

Features ==
    { Feature("Square", <<RingSquare>>),
      Feature("Wide", <<RingWide>>),
      Feature("Holed", <<RingOuter, RingHole>>),
      Feature("Line", <<RingTwoPoints>>),
      Feature("", <<RingTriangle>>),
      Feature("Empty", << >>) }

SeqsUpTo(S, n) == UNION { [1..m -> S] : m \in 0..n }

GeoJsons == SeqsUpTo(Features, MaxFeatures)

\* query points (latitude, longitude); the last one is the CSV sample row
\* 59.2761 / 11.0531 in units of 1e-4 degree, far outside every region
Points ==
    { <<5, 5>>, <<15, 15>>, <<3, 15>>, <<25, 25>>, <<5, 0>>,
      <<592761, 110531>> }

Record(index, testid, longitude, latitude) ==
    [index |-> index, testid |-> testid,
     longitude |-> longitude, latitude |-> latitude]

\* testid is an i64 that is only copied, never computed with; small ids stand
\* for it
Records ==
    { Record(0, 1000, 5, 5),
      Record(1, 1001, 15, 15),
      Record(2, 1002, 15, 3),
      Record(3, 1003, 3, 15),
      Record(4, 1004, 25, 25),
      Record(5, 1005, 110531, 592761) }

\* ---------------------------------------------------------------- Record
Record_position_swapped(r) == Point_new(r.longitude, r.latitude)

Record_position(r) == Point_new(r.latitude, r.longitude)

\* ------------------------------------------------------ containment test
\* geo::Polygon::contains is called at lib.rs:78 and lib.rs:87 but lives in the
\* geo crate; it is modelled from the crossing-number description of the
\* design document (section 4.1), in exact arithmetic.
\* Edge (A, B) is crossed by the ray from P toward increasing axis1 when
\* exactly one endpoint lies strictly above P on axis0 and the edge meets the
\* line through P strictly beyond P on axis1.  The interpolated intersection
\*   A[2] + (P[1] - A[1]) * (B[2] - A[2]) / (B[1] - A[1])
\* is compared with P[2] after multiplying out the (non-zero) denominator.
EdgeCrossed(A, B, P) ==
    /\ (A[1] > P[1]) # (B[1] > P[1])
    /\ LET d == B[1] - A[1]
           lhs == (P[2] - A[2]) * d
           rhs == (P[1] - A[1]) * (B[2] - A[2])
       IN IF d > 0 THEN lhs < rhs ELSE lhs > rhs

\* the ring is closed implicitly: the last point connects back to the first
NextVertex(ring, k) == ring[(k % Len(ring)) + 1]

RECURSIVE Crossings(_, _, _)
Crossings(ring, P, k) ==
    IF k > Len(ring) THEN 0
    ELSE (IF EdgeCrossed(ring[k], NextVertex(ring, k), P) THEN 1 ELSE 0)
         + Crossings(ring, P, k + 1)

InRing(ring, P) == Crossings(ring, P, 1) % 2 = 1

Polygon_new(exterior, interiors) ==
    [exterior |-> exterior, interiors |-> interiors]

Contains(poly, P) ==
    /\ InRing(poly.exterior, P)
    /\ \A h \in 1..Len(poly.interiors) : ~InRing(poly.interiors[h], P)

\* ---------------------------------------------------------------- County
SwapAll(coords) ==
    [k \in 1..Len(coords) |-> Point_new(coords[k][2], coords[k][1])]

County_new_unswapped(feat) ==
    IF Len(feat.coordinates) = 0 THEN Panic
    ELSE [tag |-> "County", name |-> feat.navn,
          poly |-> Polygon_new(feat.coordinates[1], << >>)]

County_new_last_ring(feat) ==
    IF Len(feat.coordinates) = 0 THEN Panic
    ELSE [tag |-> "County", name |-> feat.navn,
          poly |-> Polygon_new(
                     SwapAll(feat.coordinates[Len(feat.coordinates)]), << >>)]

\* coordinates[0] panics on an empty coordinate array; nothing else is checked
County_new(feat) ==
    IF Len(feat.coordinates) = 0 THEN Panic
    ELSE [tag |-> "County", name |-> feat.navn,
          poly |-> Polygon_new(SwapAll(feat.coordinates[1]), << >>)]

County_lookup_always(c, p) == Some(c.name)

County_lookup(c, p) ==
    IF Contains(c.poly, p) THEN Some(c.name) ELSE None

County_lookup_record_raw(c, r) ==
    IF Contains(c.poly, Point_new(r.longitude, r.latitude))
    THEN Some(<<r.testid, c.name>>) ELSE None

County_lookup_record(c, r) ==
    IF Contains(c.poly, Record_position(r))
    THEN Some(<<r.testid, c.name>>) ELSE None

\* -------------------------------------------------------------- Counties
RECURSIVE PushAll(_, _, _)
PushAll(json, k, counties) ==
    IF k > Len(json) THEN [tag |-> "Counties", list |-> counties]
    ELSE LET c == County_new(json[k])
         IN IF c.tag = "Panic" THEN Panic
            ELSE PushAll(json, k + 1, Append(counties, c))

Counties_new(json) == PushAll(json, 1, << >>)

RECURSIVE ScanFrom(_, _, _)
ScanFrom(list, k, p) ==
    IF k > Len(list) THEN None
    ELSE LET v == County_lookup(list[k], p)
         IN IF v.tag = "Some" THEN v ELSE ScanFrom(list, k + 1, p)

RECURSIVE ScanBack(_, _, _)
ScanBack(list, k, p) ==
    IF k < 1 THEN None
    ELSE LET v == County_lookup(list[k], p)
         IN IF v.tag = "Some" THEN v ELSE ScanBack(list, k - 1, p)

Counties_lookup_last(list, p) == ScanBack(list, Len(list), p)

Counties_lookup_default(list, p) ==
    LET v == ScanFrom(list, 1, p)
    IN IF v.tag = "None" /\ Len(list) > 0 THEN Some(list[1].name) ELSE v

Counties_lookup(list, p) == ScanFrom(list, 1, p)

RECURSIVE ScanRecordFrom(_, _, _)
ScanRecordFrom(list, k, r) ==
    IF k > Len(list) THEN None
    ELSE LET v == County_lookup_record(list[k], r)
         IN IF v.tag = "Some" THEN v ELSE ScanRecordFrom(list, k + 1, r)

Counties_lookup_record(list, r) == ScanRecordFrom(list, 1, r)

\* -------------------------------------------- parallel map + collect_into
\* Vec::with_capacity(n) followed by collect_into: n slots, none written yet
EmptySlots(n) == [k \in 1..n |-> Uninit]

FirstFree(slots) ==
    CHOOSE k \in 1..Len(slots) :
        /\ slots[k].tag = "Uninit"
        /\ \A j \in 1..(k - 1) : slots[j].tag # "Uninit"

CollectInCompletionOrder(slots, i, v) ==
    [slots EXCEPT ![FirstFree(slots)] = v]

\* collect_into writes the result of element i into slot i
Collect(slots, i, v) == [slots EXCEPT ![i] = v]

RemainingStopOnNone(pend, i, v) == IF v.tag = "None" THEN {} ELSE pend \ {i}

\* every element is mapped, whatever its result
Remaining(pend, i, v) == pend \ {i}

\* ------------------------------------------------------------------ state
VARIABLES
    json,      \* the GeoJson given to Counties::new
    built,     \* "unbuilt", "ok" or "panicked"
    list,      \* Counties.list
    call,      \* batch call in progress: "idle", "lookup_all", "lookup_all_records"
    pending,   \* indices of the input vector not yet mapped by a worker
    writes,    \* number of writes to each slot of the result vector
    points,    \* lookup_all: the vector p
    res,       \* lookup_all: the result vector being collected
    records,   \* lookup_all_records: the vector p
    rres,      \* lookup_all_records: the result vector being collected
    ret        \* what the last call returned; "none" while a batch call runs

vars ==
    <<json, built, list, call, pending, writes, points, res, records, rres,
      ret>>

batch == <<call, pending, writes, points, res, records, rres>>

Init ==
    /\ json = << >>
    /\ built = "unbuilt"
    /\ list = << >>
    /\ call = "idle"
    /\ pending = {}
    /\ writes = << >>
    /\ points = << >>
    /\ res = << >>
    /\ records = << >>
    /\ rres = << >>
    /\ ret = [op |-> "none"]

\* Counties::new
NewCounties(j) ==
    /\ built = "unbuilt"
    /\ json' = j
    /\ LET cs == Counties_new(j)
       IN IF cs.tag = "Panic"
          THEN built' = "panicked" /\ list' = << >>
          ELSE built' = "ok" /\ list' = cs.list
    /\ UNCHANGED <<batch, ret>>

\* Record::position
Position(r) ==
    /\ built # "panicked"
    /\ call = "idle"
    /\ ret' = [op |-> "position", prec |-> r, pos |-> Record_position(r)]
    /\ UNCHANGED <<json, built, list, batch>>

\* County::lookup on the k-th county of the index
CountyLookup(k, p) ==
    /\ built = "ok"
    /\ call = "idle"
    /\ k \in 1..Len(list)
    /\ ret' = [op |-> "county_lookup", county |-> k, cpoint |-> p,
               cval |-> County_lookup(list[k], p)]
    /\ UNCHANGED <<json, built, list, batch>>

\* Counties::lookup
Lookup(p) ==
    /\ built = "ok"
    /\ call = "idle"
    /\ ret' = [op |-> "lookup", point |-> p, val |-> Counties_lookup(list, p)]
    /\ UNCHANGED <<json, built, list, batch>>

\* Counties::lookup_record
LookupRecord(r) ==
    /\ built = "ok"
    /\ call = "idle"
    /\ ret' = [op |-> "lookup_record", rec |-> r,
               rval |-> Counties_lookup_record(list, r)]
    /\ UNCHANGED <<json, built, list, batch>>

\* Counties::lookup_all: allocate res and fan the elements out
LookupAllStart(ps) ==
    /\ built = "ok"
    /\ call = "idle"
    /\ call' = "lookup_all"
    /\ points' = ps
    /\ pending' = 1..Len(ps)
    /\ res' = EmptySlots(Len(ps))
    /\ writes' = [k \in 1..Len(ps) |-> 0]
    /\ ret' = [op |-> "none"]
    /\ UNCHANGED <<json, built, list, records, rres>>

\* Counties::lookup_all_records: allocate res and fan the elements out
LookupAllRecordsStart(rs) ==
    /\ built = "ok"
    /\ call = "idle"
    /\ call' = "lookup_all_records"
    /\ records' = rs
    /\ pending' = 1..Len(rs)
    /\ rres' = EmptySlots(Len(rs))
    /\ writes' = [k \in 1..Len(rs) |-> 0]
    /\ ret' = [op |-> "none"]
    /\ UNCHANGED <<json, built, list, points, res>>

\* a worker maps element i of lookup_all and its result is collected; the
\* closure reads only the immutable index and writes only slot i, so one job is
\* one step and the jobs of a call run in any order
Worker(i) ==
    /\ call = "lookup_all"
    /\ i \in pending
    /\ LET v == Counties_lookup(list, points[i])
       IN /\ res' = Collect(res, i, v)
          /\ pending' = Remaining(pending, i, v)
    /\ writes' = [writes EXCEPT ![i] = @ + 1]
    /\ UNCHANGED <<json, built, list, call, points, records, rres, ret>>

\* a worker maps element i of lookup_all_records and its result is collected
WorkerRecord(i) ==
    /\ call = "lookup_all_records"
    /\ i \in pending
    /\ LET v == Counties_lookup_record(list, records[i])
       IN /\ rres' = Collect(rres, i, v)
          /\ pending' = Remaining(pending, i, v)
    /\ writes' = [writes EXCEPT ![i] = @ + 1]
    /\ UNCHANGED <<json, built, list, call, points, res, records, ret>>

\* lookup_all: the parallel iterator is exhausted, res moves to the caller
Return ==
    /\ call = "lookup_all"
    /\ pending = {}
    /\ ret' = [op |-> "lookup_all", points |-> points, vals |-> res,
               writes |-> writes]
    /\ call' = "idle"
    /\ points' = << >>
    /\ res' = << >>
    /\ writes' = << >>
    /\ UNCHANGED <<json, built, list, pending, records, rres>>

\* lookup_all_records: the parallel iterator is exhausted, res moves to the
\* caller
ReturnRecords ==
    /\ call = "lookup_all_records"
    /\ pending = {}
    /\ ret' = [op |-> "lookup_all_records", recs |-> records,
               rvals |-> rres, rwrites |-> writes]
    /\ call' = "idle"
    /\ records' = << >>
    /\ rres' = << >>
    /\ writes' = << >>
    /\ UNCHANGED <<json, built, list, pending, points, res>>

Next ==
    \/ \E j \in GeoJsons : NewCounties(j)
    \/ \E r \in Records : Position(r)
    \/ \E k \in 1..MaxFeatures, p \in Points : CountyLookup(k, p)
    \/ \E p \in Points : Lookup(p)
    \/ \E r \in Records : LookupRecord(r)
    \/ \E ps \in SeqsUpTo(Points, MaxBatch) : LookupAllStart(ps)
    \/ \E rs \in SeqsUpTo(Records, MaxBatch) : LookupAllRecordsStart(rs)
    \/ \E i \in 1..MaxBatch : Worker(i)
    \/ \E i \in 1..MaxBatch : WorkerRecord(i)
    \/ Return
    \/ ReturnRecords

Spec == Init /\ [][Next]_vars

\* the worker pool keeps running jobs while any is queued, and the caller
\* resumes once the last job has finished
FairSpec ==
    /\ Spec
    /\ WF_vars(\E i \in 1..MaxBatch : Worker(i))
    /\ WF_vars(\E i \in 1..MaxBatch : WorkerRecord(i))
    /\ WF_vars(Return)
    /\ WF_vars(ReturnRecords)

\* ------------------------------------------------------------ properties
\* containment stated directly: an odd number of ring edges is crossed
CrossedEdges(ring, P) ==
    { k \in 1..Len(ring) : EdgeCrossed(ring[k], NextVertex(ring, k), P) }

InsideRing(ring, P) == Cardinality(CrossedEdges(ring, P)) % 2 = 1

InsidePolygon(poly, P) ==
    /\ InsideRing(poly.exterior, P)
    /\ \A h \in 1..Len(poly.interiors) : ~InsideRing(poly.interiors[h], P)

Covering(P) == { k \in 1..Len(list) : InsidePolygon(list[k].poly, P) }

\* C1: a returned batch has one entry per input, and entry i is what the
\* sequential single query returns for input i, whatever order the workers ran
C1_OrderPreserved ==
    /\ ret.op = "lookup_all" =>
         /\ Len(ret.vals) = Len(ret.points)
         /\ \A i \in 1..Len(ret.points) :
                ret.vals[i] = Counties_lookup(list, ret.points[i])
    /\ ret.op = "lookup_all_records" =>
         /\ Len(ret.rvals) = Len(ret.recs)
         /\ \A i \in 1..Len(ret.recs) :
                ret.rvals[i] = Counties_lookup_record(list, ret.recs[i])

\* a returned batch of two points whose results differ
C1_Witness ==
    /\ ret.op = "lookup_all"
    /\ Len(ret.vals) = 2
    /\ ret.vals[1].tag = "None"
    /\ ret.vals[2].tag = "Some"

\* C2: when some county contains p, lookup(p) returns the name of the county
\* with the smallest list position among those containing p
C2_FirstMatchWins ==
    ret.op = "lookup" =>
        \A k \in Covering(ret.point) :
            (\A j \in Covering(ret.point) : k <= j) =>
                ret.val = Some(list[k].name)

\* two overlapping counties with different names both contain the point
C2_Witness ==
    /\ ret.op = "lookup"
    /\ Covering(ret.point) = {1, 2}
    /\ list[1].name # list[2].name
    /\ ret.val = Some(list[1].name)

\* C3: County::lookup returns the county's name exactly when the point is
\* inside the exterior ring by the crossing-number rule and inside no hole,
\* and None otherwise; in the square (0,0),(0,10),(10,10),(10,0) the point
\* (5,5) is inside and (15,15) is outside
C3_CountyLookup ==
    ret.op = "county_lookup" =>
        LET c == list[ret.county]
            square == << <<0, 0>>, <<0, 10>>, <<10, 10>>, <<10, 0>> >>
        IN /\ ret.cval = IF InsidePolygon(c.poly, ret.cpoint)
                         THEN Some(c.name) ELSE None
           /\ (c.poly.exterior = square /\ ret.cpoint = <<5, 5>>) =>
                  ret.cval = Some(c.name)
           /\ (c.poly.exterior = square /\ ret.cpoint = <<15, 15>>) =>
                  ret.cval = None

\* the square county was asked about (5,5) and answered with its name
C3_Witness ==
    /\ ret.op = "county_lookup"
    /\ list[ret.county].poly.exterior =
           << <<0, 0>>, <<0, 10>>, <<10, 10>>, <<10, 0>> >>
    /\ ret.cpoint = <<5, 5>>
    /\ ret.cval = Some("Square")

\* C4: construction fails whenever a feature's exterior ring has fewer than
\* 3 points or its coordinate array is empty
C4_MalformedGeometryRejected ==
    built = "ok" =>
        \A k \in 1..Len(json) :
            /\ Len(json[k].coordinates) > 0
            /\ Len(json[k].coordinates[1]) >= 3

\* C5: construction fails on an empty region name, so every County of an
\* index has a non-empty name
C5_NameNonEmpty ==
    built = "ok" =>
        /\ \A k \in 1..Len(json) : json[k].navn # ""
        /\ \A k \in 1..Len(list) : list[k].name # ""

\* C6: lookup_record(r) is None exactly when lookup(r.position()) is None, and
\* is (r.testid, name) exactly when lookup(r.position()) is that name
C6_RecordLikePoint ==
    ret.op = "lookup_record" =>
        LET single == Counties_lookup(list, Record_position(ret.rec))
        IN /\ (ret.rval.tag = "None") <=> (single.tag = "None")
           /\ single.tag = "Some" =>
                  ret.rval = Some(<<ret.rec.testid, single.val>>)

\* a record with distinct coordinates resolved to the second county listed
C6_Witness ==
    /\ ret.op = "lookup_record"
    /\ ret.rec.longitude # ret.rec.latitude
    /\ Covering(<<ret.rec.latitude, ret.rec.longitude>>) = {2}
    /\ ret.rval = Some(<<ret.rec.testid, list[2].name>>)

\* C7: position() is the point (latitude, longitude)
C7_PositionLatLon ==
    ret.op = "position" =>
        /\ ret.pos[1] = ret.prec.latitude
        /\ ret.pos[2] = ret.prec.longitude

\* the sample record: longitude 11.0531, latitude 59.2761
C7_Witness ==
    /\ ret.op = "position"
    /\ ret.prec.longitude = 110531
    /\ ret.prec.latitude = 592761
    /\ ret.pos = <<592761, 110531>>

\* C8: a point that no county contains resolves to None, from lookup and in
\* its slot of a lookup_all result
C8_NoMatch ==
    /\ (ret.op = "lookup" /\ Covering(ret.point) = {}) => ret.val = None
    /\ ret.op = "lookup_all" =>
         \A i \in 1..Len(ret.points) :
             Covering(ret.points[i]) = {} =>
                 (i \in DOMAIN ret.vals /\ ret.vals[i] = None)

\* a batch over a non-empty index returned None for the far-away point
C8_Witness ==
    /\ ret.op = "lookup_all"
    /\ Len(list) > 0
    /\ \E i \in 1..Len(ret.points) :
           /\ ret.points[i] = <<592761, 110531>>
           /\ Covering(ret.points[i]) = {}
           /\ ret.vals[i] = None

FilledOnce(n, slots, count) ==
    /\ Len(slots) = n
    /\ \A i \in 1..n : count[i] = 1 /\ slots[i].tag \in {"None", "Some"}

AllFilledOnce ==
    /\ ret.op = "lookup_all" =>
           FilledOnce(Len(ret.points), ret.vals, ret.writes)
    /\ ret.op = "lookup_all_records" =>
           FilledOnce(Len(ret.recs), ret.rvals, ret.rwrites)

BatchReturned ==
    /\ call = "idle"
    /\ ret.op \in {"lookup_all", "lookup_all_records"}
    /\ AllFilledOnce

\* C9: every batch call eventually returns, and whenever one has returned,
\* each of its N slots has been filled exactly once
C9_RunsToCompletion ==
    /\ []AllFilledOnce
    /\ (call # "idle") ~> BatchReturned

\* a batch returned with a None slot next to a resolved one
C9_Witness ==
    /\ BatchReturned
    /\ ret.op = "lookup_all_records"
    /\ Len(ret.rvals) = 2
    /\ ret.rvals[1].tag = "None"
    /\ ret.rvals[2].tag = "Some"

\* C10: the exterior ring is the first ring array with every (longitude,
\* latitude) pair swapped, in the same number and order; no holes are built
\* and further ring arrays are ignored
C10_ExteriorFromFirstRing ==
    built = "ok" =>
        /\ Len(list) = Len(json)
        /\ \A k \in 1..Len(json) :
               LET src == json[k].coordinates[1]
                   ext == list[k].poly.exterior
               IN /\ list[k].poly.interiors = << >>
                  /\ Len(ext) = Len(src)
                  /\ \A n \in 1..Len(src) :
                         ext[n][1] = src[n][2] /\ ext[n][2] = src[n][1]

\* an index holding a county built from a feature with two ring arrays
\* and one built from a ring whose pairs are not symmetric
C10_Witness ==
    /\ built = "ok"
    /\ \E k \in 1..Len(json) : Len(json[k].coordinates) = 2
    /\ \E k \in 1..Len(json) :
           \E n \in 1..Len(json[k].coordinates[1]) :
               json[k].coordinates[1][n][1] # json[k].coordinates[1][n][2]

====
